---- MODULE Spec2Model ----
(***************************************************************************)
(* State-machine model of src/components/ChatPanel.tsx: the ChatPanel      *)
(* component's React state (messages, inputValue, isTyping), the           *)
(* chatInstance ref, its props, and the requests in flight between         *)
(* chatInstance.sendMessage and the continuation of handleSend.            *)
(* Texts are sequences of one-character strings so that String.trim is     *)
(* computed, not assumed.                                                  *)
(***************************************************************************)
EXTENDS Integers, Sequences, FiniteSets

VARIABLES
    character,      \* prop: 'Priyank' | 'Arzoo'
    episodeLabel,   \* prop
    initialHook,    \* prop
    mounted,        \* has the mount effect (initChat) run yet
    messages,       \* useState: the transcript
    inputValue,     \* useState: the input buffer
    isTyping,       \* useState: the typing indicator
    chatInstance,   \* useRef: the session handle, NoChat before initChat
    pending,        \* sendMessage calls awaiting resolution/rejection
    sent,           \* every sendMessage call made, in order
    created,        \* number of ai.chats.create calls made
    uncaught,       \* errors that escaped handleSend
    lastOp,         \* the handler that ran last
    lastResult,     \* the response delivered by the last resolution
    lastReq,        \* the request settled last (0: none yet)
    overlapped      \* has a submit been accepted while a request was pending

vars == <<character, episodeLabel, initialHook, mounted, messages, inputValue,
          isTyping, chatInstance, pending, sent, created, uncaught, lastOp,
          lastResult, lastReq, overlapped>>

(* ------------------------------ bounds --------------------------------- *)
MaxRequests == 2   \* sendMessage calls per behaviour
MaxChats == 2      \* ai.chats.create calls per behaviour

(* ------------------------------ texts ---------------------------------- *)
WhiteSpace == {" "}

\* values typed into the input: empty, blank, plain, padded
Inputs == {<<>>, <<" ">>, <<"a">>, <<" ", "a", " ">>}

Characters == {"Priyank", "Arzoo"}
EpisodeLabels == {"Episode 1", "Episode 2"}
Hooks == {<<"a">>, <<"a", "a">>}

FILLER == <<"I", "'", "m", " ", "n", "o", "t", " ", "s", "u", "r", "e", " ",
            "h", "o", "w", " ", "t", "o", " ", "r", "e", "s", "p", "o", "n",
            "d", " ", "t", "o", " ", "t", "h", "a", "t", ".", ".", ".">>

ERROR_FALLBACK == <<"S", "o", "m", "e", "t", "h", "i", "n", "g", " ", "w", "e",
                    "n", "t", " ", "w", "r", "o", "n", "g", ".", " ", "L", "e",
                    "t", "'", "s", " ", "t", "r", "y", " ", "t", "h", "a", "t",
                    " ", "a", "g", "a", "i", "n", ".">>

\* GenerateContentResponse.text: string | undefined
Results == {[hasText |-> FALSE, text |-> <<>>],
            [hasText |-> TRUE,  text |-> <<>>],
            [hasText |-> TRUE,  text |-> <<"a">>]}
NoResult == [hasText |-> FALSE, text |-> <<>>]

RECURSIVE TrimStart(_)
TrimStart(s) ==
    IF s # <<>> /\ Head(s) \in WhiteSpace THEN TrimStart(Tail(s)) ELSE s

RECURSIVE TrimEnd(_)
TrimEnd(s) ==
    IF s # <<>> /\ s[Len(s)] \in WhiteSpace
    THEN TrimEnd(SubSeq(s, 1, Len(s) - 1)) ELSE s

TrimNone(s) == s

\* String.prototype.trim
Trim(s) == TrimEnd(TrimStart(s))

(* ----------------------------- initChat -------------------------------- *)
NoChat == [id |-> 0, persona |-> "", episode |-> ""]

Voice(c) == IF c = "Priyank" THEN "male lead" ELSE "female lead"

CreateChatNull(n, c, e) == NoChat

\* ai.chats.create({model, config: {systemInstruction}})
CreateChat(n, c, e) == [id |-> n, persona |-> Voice(c), episode |-> e]

SeedTranscriptAppend(prev, hook) == Append(prev, [role |-> "model", text |-> hook])

\* setMessages([{ role: 'model', text: initialHook }])
SeedTranscript(prev, hook) == <<[role |-> "model", text |-> hook]>>

(* ---------------------------- handleSend ------------------------------- *)
HasChatAlways(c) == TRUE

\* !chatInstance.current is false
HasChat(c) == c # NoChat

UserTextRaw(input) == input

\* const userText = inputValue.trim()
UserText(input) == Trim(input)

AppendUserNone(prev, text) == prev

\* setMessages(prev => [...prev, { role: 'user', text: userText }])
AppendUser(prev, text) == Append(prev, [role |-> "user", text |-> text])

AppendModelReplace(prev, text) ==
    IF prev = <<>> THEN <<[role |-> "model", text |-> text]>>
    ELSE [prev EXCEPT ![Len(prev)] = [role |-> "model", text |-> text]]

\* setMessages(prev => [...prev, { role: 'model', text: ... }])
AppendModel(prev, text) == Append(prev, [role |-> "model", text |-> text])

ResponseTextRaw(r) == r.text

\* result.text || "I'm not sure how to respond to that..."
ResponseText(r) == IF r.hasText /\ r.text # <<>> THEN r.text ELSE FILLER

ErrorTextEmpty(r) == <<>>

\* the text appended by the catch block, whatever the error
ErrorText(r) == ERROR_FALLBACK

(* ------------------------------ state ---------------------------------- *)
Init ==
    /\ character \in Characters
    /\ episodeLabel \in EpisodeLabels
    /\ initialHook \in Hooks
    /\ mounted = FALSE
    /\ messages = <<>>
    /\ inputValue = <<>>
    /\ isTyping = FALSE
    /\ chatInstance = NoChat
    /\ pending = {}
    /\ sent = <<>>
    /\ created = 0
    /\ uncaught = 0
    /\ lastOp = "construct"
    /\ lastResult = NoResult
    /\ lastReq = 0
    /\ overlapped = FALSE

\* body of initChat with the props of the current render
InitChat(c, e, h) ==
    /\ created < MaxChats
    /\ created' = created + 1
    /\ chatInstance' = CreateChat(created + 1, c, e)
    /\ messages' = SeedTranscript(messages, h)
    /\ lastOp' = "initChat"
    /\ UNCHANGED <<inputValue, isTyping, pending, sent, uncaught, lastResult,
                   lastReq, overlapped>>

\* the effect's first run, after the first render
Mount ==
    /\ ~mounted
    /\ mounted' = TRUE
    /\ InitChat(character, episodeLabel, initialHook)
    /\ UNCHANGED <<character, episodeLabel, initialHook>>

\* the parent re-renders with a changed dependency; the effect runs again
PropsChange(c, e, h) ==
    /\ mounted
    /\ <<c, e, h>> # <<character, episodeLabel, initialHook>>
    /\ character' = c
    /\ episodeLabel' = e
    /\ initialHook' = h
    /\ InitChat(c, e, h)
    /\ UNCHANGED mounted

\* onChange={(e) => setInputValue(e.target.value)}
OnChange(v) ==
    /\ v # inputValue
    /\ inputValue' = v
    /\ lastOp' = "onChange"
    /\ UNCHANGED <<character, episodeLabel, initialHook, mounted, messages,
                   isTyping, chatInstance, pending, sent, created, uncaught,
                   lastResult, lastReq, overlapped>>

HandleSendWhenIdle ==
    IF Trim(inputValue) = <<>> \/ ~HasChat(chatInstance) \/ isTyping
    THEN /\ lastOp' = "handleSend"
         /\ UNCHANGED <<character, episodeLabel, initialHook, mounted,
                        messages, inputValue, isTyping, chatInstance, pending,
                        sent, created, uncaught, lastResult, lastReq,
                        overlapped>>
    ELSE /\ Len(sent) < MaxRequests
         /\ inputValue' = <<>>
         /\ messages' = AppendUser(messages, UserText(inputValue))
         /\ isTyping' = TRUE
         /\ sent' = Append(sent, [chat |-> chatInstance.id,
                                  message |-> UserText(inputValue)])
         /\ pending' = pending \cup {[req |-> Len(sent) + 1,
                                      chat |-> chatInstance.id,
                                      message |-> UserText(inputValue)]}
         /\ lastOp' = "handleSend"
         /\ overlapped' = (overlapped \/ pending # {})
         /\ UNCHANGED <<character, episodeLabel, initialHook, mounted,
                        chatInstance, created, uncaught, lastResult, lastReq>>

\* handleSend up to the await
HandleSend ==
    IF Trim(inputValue) = <<>> \/ ~HasChat(chatInstance)
    THEN /\ lastOp' = "handleSend"
         /\ UNCHANGED <<character, episodeLabel, initialHook, mounted,
                        messages, inputValue, isTyping, chatInstance, pending,
                        sent, created, uncaught, lastResult, lastReq,
                        overlapped>>
    ELSE /\ Len(sent) < MaxRequests
         /\ inputValue' = <<>>
         /\ messages' = AppendUser(messages, UserText(inputValue))
         /\ isTyping' = TRUE
         /\ sent' = Append(sent, [chat |-> chatInstance.id,
                                  message |-> UserText(inputValue)])
         /\ pending' = pending \cup {[req |-> Len(sent) + 1,
                                      chat |-> chatInstance.id,
                                      message |-> UserText(inputValue)]}
         /\ lastOp' = "handleSend"
         /\ overlapped' = (overlapped \/ pending # {})
         /\ UNCHANGED <<character, episodeLabel, initialHook, mounted,
                        chatInstance, created, uncaught, lastResult, lastReq>>

ResolveClearsInput(p, r) ==
    /\ p \in pending
    /\ pending' = pending \ {p}
    /\ messages' = AppendModel(messages, ResponseText(r))
    /\ isTyping' = FALSE
    /\ inputValue' = <<>>
    /\ lastOp' = "resolve"
    /\ lastResult' = r
    /\ lastReq' = p.req
    /\ UNCHANGED <<character, episodeLabel, initialHook, mounted,
                   chatInstance, sent, created, uncaught, overlapped>>

\* sendMessage fulfils: the try block's tail, then finally
Resolve(p, r) ==
    /\ p \in pending
    /\ pending' = pending \ {p}
    /\ messages' = AppendModel(messages, ResponseText(r))
    /\ isTyping' = FALSE
    /\ lastOp' = "resolve"
    /\ lastResult' = r
    /\ lastReq' = p.req
    /\ UNCHANGED <<character, episodeLabel, initialHook, mounted, inputValue,
                   chatInstance, sent, created, uncaught, overlapped>>

RejectNoFinally(p) ==
    /\ p \in pending
    /\ pending' = pending \ {p}
    /\ messages' = AppendModel(messages, ErrorText(p))
    /\ lastOp' = "reject"
    /\ lastReq' = p.req
    /\ UNCHANGED <<character, episodeLabel, initialHook, mounted, inputValue,
                   isTyping, chatInstance, sent, created, uncaught, lastResult,
                   overlapped>>

\* sendMessage rejects: catch, then finally
Reject(p) ==
    /\ p \in pending
    /\ pending' = pending \ {p}
    /\ messages' = AppendModel(messages, ErrorText(p))
    /\ isTyping' = FALSE
    /\ lastOp' = "reject"
    /\ lastReq' = p.req
    /\ UNCHANGED <<character, episodeLabel, initialHook, mounted, inputValue,
                   chatInstance, sent, created, uncaught, lastResult,
                   overlapped>>

Next ==
    \/ Mount
    \/ \E c \in Characters, e \in EpisodeLabels, h \in Hooks : PropsChange(c, e, h)
    \/ \E v \in Inputs : OnChange(v)
    \/ HandleSend
    \/ \E p \in pending : \E r \in Results : Resolve(p, r)
    \/ \E p \in pending : Reject(p)

Spec == Init /\ [][Next]_vars

\* every request record handleSend can build
Requests ==
    [req : 1..MaxRequests, chat : 1..MaxChats,
     message : {Trim(v) : v \in Inputs} \ {<<>>}]

\* the promise of sendMessage settles: it fulfils or it rejects
Settle(p) == (\E r \in Results : Resolve(p, r)) \/ Reject(p)

\* the service settles every request it was sent
FairSpec == Spec /\ \A p \in Requests : WF_vars(Settle(p))

TypeOK ==
    /\ character \in Characters
    /\ episodeLabel \in EpisodeLabels
    /\ initialHook \in Hooks
    /\ mounted \in BOOLEAN
    /\ inputValue \in Inputs
    /\ isTyping \in BOOLEAN
    /\ created \in 0..MaxChats
    /\ chatInstance.id \in 0..MaxChats
    /\ Len(sent) <= MaxRequests
    /\ \A i \in 1..Len(messages) : messages[i].role \in {"user", "model"}
    /\ uncaught = 0

(* ------------------------- helper predicates --------------------------- *)
Last(s) == s[Len(s)]

IsPrefix(s, t) == Len(s) <= Len(t) /\ SubSeq(t, 1, Len(s)) = s

Blank(s) == \A i \in 1..Len(s) : s[i] \in WhiteSpace

\* t is s without its leading and trailing white space
IsTrimOf(t, s) ==
    \E i \in 0..Len(s) : \E j \in i..Len(s) :
        /\ t = SubSeq(s, i + 1, j)
        /\ \A k \in 1..i : s[k] \in WhiteSpace
        /\ \A k \in (j + 1)..Len(s) : s[k] \in WhiteSpace
        /\ t # <<>> => (t[1] \notin WhiteSpace /\ t[Len(t)] \notin WhiteSpace)

UserTurns(k) == Cardinality({i \in 1..k : messages[i].role = "user"})
ReplyTurns(k) == Cardinality({i \in 2..k : messages[i].role = "model"})

HookTurn == [role |-> "model", text |-> initialHook]

\* a step of handleSend that passes the guard on line 52
SendStep ==
    /\ lastOp' = "handleSend"
    /\ ~Blank(inputValue)
    /\ chatInstance # NoChat

(* ------------------------------ claims --------------------------------- *)

\* C1: right after initChat has run (on mount or on a change of character,
\* episodeLabel or initialHook) the transcript is exactly the one hook turn of
\* the current initialHook, whatever it held before.
C1_InitSeedsHook ==
    lastOp = "initChat" => messages = <<[role |-> "model", text |-> initialHook]>>

\* C1 witness: a re-initialization that followed a conversation.
C1_Witness == lastOp = "initChat" /\ created = 2 /\ sent # <<>>

\* C2 (as stated): the accepted submit appends the trimmed user turn in the
\* step that issues the request, and in every reachable state every unresolved
\* request has its user turn in the transcript.
C2_Original ==
    /\ [](\A p \in pending :
            \E i \in 1..Len(messages) :
                messages[i] = [role |-> "user", text |-> p.message])
    /\ [][SendStep =>
            /\ Len(messages') = Len(messages) + 1
            /\ Last(messages').role = "user"
            /\ IsTrimOf(Last(messages').text, inputValue)]_vars

\* C2 (amended): the accepted submit appends exactly the trimmed user turn, as
\* the last turn, in the step that issues the request; and every unresolved
\* request issued on the current chat (no re-initialization since) has its user
\* turn in the transcript.
C2_UserTurnBeforeReply ==
    /\ [](/\ \A p \in pending :
                p.chat = chatInstance.id =>
                    \E i \in 1..Len(messages) :
                        messages[i] = [role |-> "user", text |-> p.message]
          /\ Cardinality({p \in pending : p.chat = chatInstance.id})
                <= UserTurns(Len(messages)))
    /\ [][SendStep =>
            /\ Len(messages') = Len(messages) + 1
            /\ SubSeq(messages', 1, Len(messages)) = messages
            /\ Last(messages').role = "user"
            /\ IsTrimOf(Last(messages').text, inputValue)
            /\ \E p \in pending' \ pending :
                   /\ p.message = Last(messages').text
                   /\ pending' = pending \cup {p}]_vars

\* C2 witness: a request is outstanding on the current chat, its user turn last.
C2_Witness ==
    /\ lastOp = "handleSend"
    /\ \E p \in pending : p.chat = chatInstance.id
    /\ messages # <<>>
    /\ Last(messages).role = "user"

\* C3: handleSend with an empty or all-white-space input changes nothing: the
\* transcript, typing indicator, input, chat handle are kept and no request is
\* issued.
C3_BlankSubmitNoOp ==
    [][(lastOp' = "handleSend" /\ Blank(inputValue)) =>
         UNCHANGED <<messages, isTyping, inputValue, chatInstance, pending,
                     sent>>]_vars

\* C3 witness: handleSend has just run on a white-space input with a chat open.
C3_Witness ==
    lastOp = "handleSend" /\ inputValue = <<" ">> /\ chatInstance # NoChat

\* C4: a fulfilled request appends exactly one persona turn at the end, with
\* the response text if non-empty and the filler if empty or absent, and the
\* typing indicator is false afterwards.
C4_ResolveAppendsReply ==
    [][lastOp' = "resolve" =>
         /\ messages' = Append(messages,
               [role |-> "model",
                text |-> IF lastResult'.hasText /\ Len(lastResult'.text) > 0
                         THEN lastResult'.text ELSE FILLER])
         /\ isTyping' = FALSE]_vars

\* C4 witness: a response without text has been delivered.
C4_Witness ==
    /\ lastOp = "resolve"
    /\ ~lastResult.hasText
    /\ Last(messages) = [role |-> "model", text |-> FILLER]

\* C5: a rejected request appends exactly one persona turn with the error
\* fallback, nothing escapes handleSend, the typing indicator is false
\* afterwards and the chat handle is still there for further submits.
C5_RejectAppendsFallback ==
    [][lastOp' = "reject" =>
         /\ messages' = Append(messages,
               [role |-> "model", text |-> ERROR_FALLBACK])
         /\ isTyping' = FALSE
         /\ uncaught' = 0
         /\ chatInstance' = chatInstance
         /\ chatInstance' # NoChat]_vars

\* C5 witness: after a failure, a further submit has been accepted.
C5_Witness ==
    /\ lastOp = "handleSend"
    /\ Len(sent) = 2
    /\ Len(messages) >= 3
    /\ messages[Len(messages) - 1] = [role |-> "model", text |-> ERROR_FALLBACK]
    /\ Last(messages).role = "user"

\* C6 (as stated): the typing indicator is true exactly when at least one
\* request is outstanding.
C6_TypingIffOutstanding == isTyping <=> pending # {}

\* C7 (as stated): every step keeps the transcript as a prefix of the next.
C7_Original == [][IsPrefix(messages, messages')]_vars

\* C7 (amended): every step other than initChat keeps the transcript as a
\* prefix of the next one; initChat replaces it by the single hook turn.
C7_AppendOnlyBetweenInits ==
    [][/\ lastOp' # "initChat" => IsPrefix(messages, messages')
       /\ lastOp' = "initChat" => messages' = <<[role |-> "model", text |-> initialHook']>>]_vars

\* C7 witness: a conversation that grew by a reply after a re-initialization.
C7_Witness ==
    /\ created = 2
    /\ Len(messages) >= 3
    /\ lastOp \in {"resolve", "reject"}

\* C8 (as stated): the first turn is the hook, and in every prefix of the
\* transcript the persona turns other than the hook are at most as many as the
\* user turns.
C8_ReplyAfterUser ==
    messages # <<>> =>
        /\ messages[1] = HookTurn
        /\ \A k \in 1..Len(messages) : ReplyTurns(k) <= UserTurns(k)

\* C9: an accepted submit issues exactly one request, carrying the trimmed
\* input, the same text as the user turn it appends; no other step (a
\* rejection included) issues a request.
C9_OneRequestPerSubmit ==
    [][/\ SendStep =>
            /\ Len(sent') = Len(sent) + 1
            /\ SubSeq(sent', 1, Len(sent)) = sent
            /\ IsTrimOf(Last(sent').message, inputValue)
            /\ Last(sent').chat = chatInstance.id
            /\ Last(messages') = [role |-> "user", text |-> Last(sent').message]
            /\ Cardinality(pending') = Cardinality(pending) + 1
       /\ ~SendStep => sent' = sent /\ pending' \subseteq pending]_vars

\* C9 witness: a request failed and the only later request is a new submit's.
C9_Witness ==
    /\ Len(sent) = 2
    /\ \E i \in 1..Len(messages) :
           messages[i] = [role |-> "model", text |-> ERROR_FALLBACK]
    /\ Cardinality(pending) = 1

\* C10: handleSend while chatInstance.current is null changes nothing: the
\* transcript, typing indicator and input are kept, no request is issued and
\* nothing is thrown.
C10_NoChatSubmitNoOp ==
    [][(lastOp' = "handleSend" /\ chatInstance = NoChat) =>
         UNCHANGED <<messages, isTyping, inputValue, chatInstance, pending,
                     sent, uncaught>>]_vars

\* C10 witness: handleSend has just run on a typed text with no chat yet.
C10_Witness ==
    lastOp = "handleSend" /\ chatInstance = NoChat /\ inputValue = <<"a">>

\* the requests settled by this step
Settled == pending \ pending'

\* C11: under the fairness of FairSpec every issued request is eventually
\* settled, its settlement appends exactly one persona turn, and it leads to a
\* state with the request gone, the typing indicator false and a chat handle
\* present, from which a new submit passes the guard.
C11_EventuallyReplied ==
    /\ \A p \in Requests :
          (p \in pending) ~>
              (p \notin pending /\ ~isTyping /\ chatInstance # NoChat)
    /\ [][Settled # {} =>
            /\ Cardinality(Settled) = 1
            /\ Len(messages') = Len(messages) + 1
            /\ SubSeq(messages', 1, Len(messages)) = messages
            /\ Last(messages').role = "model"
            /\ Last(messages').text \in {<<"a">>, FILLER, ERROR_FALLBACK}]_vars

\* C11 witness: every issued request has been settled, the indicator is off.
C11_Witness ==
    /\ lastOp \in {"resolve", "reject"}
    /\ sent # <<>>
    /\ pending = {}
    /\ ~isTyping
    /\ chatInstance # NoChat

\* C12: a submit that passes the guard while a request is outstanding is
\* accepted whatever the typing indicator says and adds a second outstanding
\* request; a settlement appends its persona turn at the end whichever pending
\* request it belongs to, so replies appear in settlement order.
C12_ConcurrentSubmits ==
    [][/\ (SendStep /\ pending # {}) =>
            /\ Cardinality(pending') = Cardinality(pending) + 1
            /\ Len(sent') = Len(sent) + 1
            /\ Last(messages').role = "user"
       /\ Settled # {} =>
            /\ \E p \in pending : Settled = {p} /\ lastReq' = p.req
            /\ Len(messages') = Len(messages) + 1
            /\ SubSeq(messages', 1, Len(messages)) = messages
            /\ Last(messages').role = "model"]_vars

\* C12 witness: [hook, user1, user2, reply-to-2, reply-to-1]: two requests on
\* one chat, both settled, request 1 settled last.
C12_Witness ==
    /\ created = 1
    /\ Len(sent) = 2
    /\ pending = {}
    /\ lastReq = 1
    /\ lastOp \in {"resolve", "reject"}
    /\ Len(messages) = 5
    /\ [i \in 1..5 |-> messages[i].role]
           = <<"model", "user", "user", "model", "model">>

\* C13 (as stated): the settlement of a request issued on a chat that has
\* since been replaced appends nothing to the transcript.
C13_StaleDiscarded ==
    [][\A p \in Settled :
          p.chat # chatInstance.id => messages' = messages]_vars

\* C14: with no re-initialization after the first initialization, a state with
\* no outstanding request has a transcript of 1 + 2n turns for n accepted
\* submits: the hook, n user turns and n persona turns; if no submit was
\* accepted while a request was pending, the turns alternate persona, user,
\* persona, ... in every state.
C14_TwoTurnsPerRoundTrip ==
    (mounted /\ created = 1) =>
        /\ pending = {} =>
              /\ Len(messages) = 1 + 2 * Len(sent)
              /\ messages[1] = HookTurn
              /\ UserTurns(Len(messages)) = Len(sent)
              /\ ReplyTurns(Len(messages)) = Len(sent)
        /\ ~overlapped =>
              \A i \in 1..Len(messages) :
                  messages[i].role = IF i % 2 = 1 THEN "model" ELSE "user"

\* C14 witness: two complete round-trips, one after the other, on the first chat.
C14_Witness ==
    /\ mounted
    /\ created = 1
    /\ pending = {}
    /\ ~overlapped
    /\ Len(sent) = 2
    /\ Len(messages) = 5

\* C15: a non-empty transcript implies a chat handle; the handle, once set, is
\* never null again; and once initChat has run, handleSend on a non-blank input
\* always issues a request.
C15_ChatNeverNullAgain ==
    /\ [](messages # <<>> => chatInstance # NoChat)
    /\ [](mounted => chatInstance # NoChat)
    /\ [][chatInstance # NoChat => chatInstance' # NoChat]_vars
    /\ [][(mounted /\ lastOp' = "handleSend" /\ ~Blank(inputValue)) =>
             (Len(sent') = Len(sent) + 1 /\ Last(messages').role = "user")]_vars

\* C15 witness: a submit accepted on the chat of a re-initialization.
C15_Witness ==
    /\ lastOp = "handleSend"
    /\ created = 2
    /\ chatInstance.id = 2
    /\ \E p \in pending : p.chat = 2
    /\ Last(messages).role = "user"

\* C16: an accepted submit sets the input to the empty string; a resolution or
\* rejection leaves the input and the chat handle as they were.
C16_InputKeptOnReply ==
    [][/\ SendStep => inputValue' = <<>>
       /\ Settled # {} => UNCHANGED <<inputValue, chatInstance>>]_vars

\* C16 witness: a text typed while the only request was pending is still in
\* the input after the reply arrived.
C16_Witness ==
    /\ lastOp \in {"resolve", "reject"}
    /\ Len(sent) = 1
    /\ inputValue = <<" ", "a", " ">>

====
